---------------------------- MODULE Spec2Model ----------------------------
(***************************************************************************)
(* A model of ford-sync-convert (src/src/main.rs): playlists are parsed    *)
(* and rewritten, their entries are partitioned into files to copy and    *)
(* files to convert, the conversions run on a thread pool and report       *)
(* through a channel, and the copies run afterwards on the main thread.    *)
(*                                                                         *)
(* Strings that the program takes apart are modelled by their parts: a     *)
(* path is a root flag and a sequence of components, a component is the    *)
(* sequence of the pieces of its name between the dots ("a.wav" is         *)
(* <<"a", "wav">>, "a." is <<"a", "">>, "a" is <<"a">>).                   *)
(***************************************************************************)
EXTENDS Naturals, Sequences, FiniteSets, TLC

VARIABLES
    playlists,          \* args.playlists with the entries each reader yields
    ffmpeg,             \* what running ffmpeg on the i-th file to convert will give
    pc,                 \* position of the main thread
    panicAt,            \* source line of the unwrap() that ended the run, 0 if none
    exit_status,        \* << >> while the process lives, then << its exit status >>
    pl,                 \* index of the playlist the outer loop is at
    ent,                \* number of entries of that playlist already consumed
    written,            \* per playlist: the lines handed to its writer
    flushed,            \* per playlist: writer.flush() has returned
    files_to_copy,      \* Vec of (input path, output path)
    files_to_convert,   \* Vec of (input path, output path)
    num_copy_tasks,
    num_convert_tasks,
    num_tasks_total,
    submitted,          \* convert tasks the submission loop has passed
    queue,              \* jobs pool.execute() has queued and no worker has taken
    active,             \* jobs a worker of the pool is running
    chan,               \* messages sent on tx and not yet received from rx
    received,           \* results the collector has taken from rx
    copied,             \* copy tasks the copy loop has passed
    dirs,               \* directories create_dir_all() has been called on, in order
    exitOf,             \* per convert task: what Command::output() returned
    lost,               \* jobs whose worker died before tx.send()
    log                 \* the (index/total) lines logged, in order

vars == << playlists, ffmpeg, pc, panicAt, exit_status, pl, ent, written, flushed, files_to_copy,
           files_to_convert, num_copy_tasks, num_convert_tasks, num_tasks_total,
           submitted, queue, active, chan, received, copied, dirs, exitOf,
           lost, log >>

(***************************************************************************)
(* Bounds of the model.                                                    *)
(***************************************************************************)
MaxPlaylists == 2
MaxEntries == 3
MaxTasks == 4
MaxCopy == 2
MaxPoolTasks == 6

\* Tasks of a run checked for progress.
MaxLiveTasks == 3

(***************************************************************************)
(* std::path as the program uses it.                                       *)
(***************************************************************************)
ParentDir == << "", "", "" >>

MkPath(abs, comps) == [abs |-> abs, comps |-> comps]

EmptyPath == MkPath(FALSE, << >>)

Last(s) == s[Len(s)]

Front(s) == SubSeq(s, 1, Len(s) - 1)

\* Path::file_name(): the last component, unless the path ends in "..".
HasFileName(p) == Len(p.comps) > 0 /\ Last(p.comps) # ParentDir

\* rsplit_file_at_dot: the text before the last dot is empty only for ".x".
HasExtension(p) ==
    /\ HasFileName(p)
    /\ Len(Last(p.comps)) >= 2
    /\ ~ (Len(Last(p.comps)) = 2 /\ Last(p.comps)[1] = "")

\* Path::extension(), defined where HasExtension holds.
Extension(p) == Last(Last(p.comps))

\* Path::file_stem(): the name up to its last dot, the whole name if it has
\* no dot or only a leading one.
FileStem(p) ==
    IF HasExtension(p) THEN Front(Last(p.comps)) ELSE Last(p.comps)

\* Path::with_extension(ext) for a non-empty ext: a path without a file name
\* is returned unchanged.
WithExtension(p, ext) ==
    IF ~ HasFileName(p) THEN p
    ELSE MkPath(p.abs, Append(Front(p.comps), Append(FileStem(p), ext)))

\* Path::join(): an absolute argument replaces the base.
Join(base, p) ==
    IF p.abs THEN p ELSE MkPath(base.abs, base.comps \o p.comps)

\* Path::parent() of a path that has one.
Parent(p) == MkPath(p.abs, Front(p.comps))

\* Path::iter(): the root, if any, then every component.
RootToken == << "/" >>

PathIter(p) == (IF p.abs THEN << RootToken >> ELSE << >>) \o p.comps

(***************************************************************************)
(* The command line.                                                       *)
(***************************************************************************)
output_dir == MkPath(FALSE, << << "output" >> >>)

\* The directory part of the k-th playlist argument.
PlaylistParent(k) ==
    IF k % 2 = 1 THEN EmptyPath ELSE MkPath(FALSE, << << "lists" >> >>)

\* Lines 48-57.
input_playlist_dir(k) ==
    IF PlaylistParent(k) = EmptyPath THEN MkPath(FALSE, << << "", "" >> >>)
    ELSE PlaylistParent(k)

(***************************************************************************)
(* What the reader of a playlist can yield.                                *)
(***************************************************************************)
PathEntry(p) == [kind |-> "Path", path |-> p]

UrlEntry == [kind |-> "Url", path |-> EmptyPath]

ErrEntry == [kind |-> "Err", path |-> EmptyPath]

Rel(comps) == MkPath(FALSE, comps)

ClassifyEntries ==
    { PathEntry(Rel(<< << "a", "mp3" >> >>)),
      PathEntry(Rel(<< << "a", "wav" >> >>)),
      PathEntry(Rel(<< << "d" >>, << "b", "MP3" >> >>)),
      PathEntry(Rel(<< << "a" >> >>)),
      PathEntry(Rel(<< ParentDir, << "c", "" >> >>)),
      PathEntry(MkPath(TRUE, << << "m" >>, << "c", "x", "ogg" >> >>)),
      UrlEntry,
      ErrEntry }


RECURSIVE Sum(_)
Sum(s) == IF s = << >> THEN 0 ELSE Head(s) + Sum(Tail(s))

\* The entries of the k-th of the playlists of lengths lens cut out of flat.
Cut(flat, lens, k) ==
    LET before == Sum(SubSeq(lens, 1, k - 1))
    IN  SubSeq(flat, before + 1, before + lens[k])

\* playlists is a non-empty list of at most p playlists holding at most t
\* entries out of S in total.
PlaylistsAmong(S, p, t) ==
    \E n \in 1..p, total \in 0..t :
        \E flat \in [1..total -> S], lens \in [1..n -> 0..total] :
            /\ Sum(lens) = total
            /\ playlists = [k \in 1..n |-> Cut(flat, lens, k)]

(***************************************************************************)
(* Lines 75-106: what one surviving entry becomes.                         *)
(***************************************************************************)
\* Variant: the comparison of line 82 made without regard to case.
IsMp3_AnyCase(p) == Extension(p) \in { "mp3", "MP3", "Mp3", "mP3" }

\* Line 82.
IsMp3(p) == Extension(p) = "mp3"

\* Lines 82-95: the path written to the playlist, relative to output_dir.
output_audio_path(p) == IF IsMp3(p) THEN p ELSE WithExtension(p, "mp3")

\* Lines 83-86 and 90-93: the pair pushed, with the entry it comes from.
Task(k, i, p) ==
    [input |-> Join(input_playlist_dir(k), p),
     output |-> Join(output_dir, output_audio_path(p)),
     src |-> << k, i >>]

Separator == << "\\" >>

\* Lines 99-105: every component followed by a backslash.
RECURSIVE FoldComponents(_)
FoldComponents(it) ==
    IF it = << >> THEN << >>
    ELSE << Head(it), Separator >> \o FoldComponents(Tail(it))

\* Variant: the string is written as folded.
Truncate_Nothing(s) == s

\* Line 106: String::truncate(len - 1) drops the last character, which is
\* the backslash pushed last.
Truncate(s) == IF s = << >> THEN s ELSE Front(s)

output_audio_path_windows(p) == Truncate(FoldComponents(PathIter(output_audio_path(p))))

\* Variant: a path without extension is not dropped at lines 77-80.
Survives_KeepsNoExtension(e) == e.kind = "Path" /\ HasFileName(e.path)

\* Lines 60-81: the entries that reach line 82.
Survives(e) == e.kind = "Path" /\ HasExtension(e.path)

(***************************************************************************)
(* What the transcoder does is fixed by its input files: Command::output() *)
(* gives Ok with a zero or a non-zero exit status, or Err when ffmpeg      *)
(* cannot be launched.                                                     *)
(***************************************************************************)
Results == { "Success", "NonZero", "LaunchErr" }

RECURSIVE CountConvert(_)
CountConvert(entries) ==
    IF entries = << >> THEN 0
    ELSE (IF Survives(Head(entries)) /\ ~ IsMp3(Head(entries).path) THEN 1 ELSE 0)
         + CountConvert(Tail(entries))

RECURSIVE NumConvertEntries(_)
NumConvertEntries(lists) ==
    IF lists = << >> THEN 0
    ELSE CountConvert(Head(lists)) + NumConvertEntries(Tail(lists))

\* Every assignment of results to the files.
AllOutcomes(files) == [files -> Results]

\* The assignments that give every file the same result.
UniformOutcomes(files) == { [i \in files |-> r] : r \in Results }

SuccessOnly(files) == { [i \in files |-> "Success"] }

(***************************************************************************)
(* The initial state: a command line and the playlists it names.           *)
(***************************************************************************)
\* The files ffmpeg will be run on.
ConvertFiles == 1..NumConvertEntries(playlists)

InitMain ==
    /\ pc = "mkroot"
    /\ panicAt = 0
    /\ exit_status = << >>
    /\ pl = 1
    /\ ent = 0
    /\ written = [k \in 1..Len(playlists) |-> << >>]
    /\ flushed = [k \in 1..Len(playlists) |-> FALSE]
    /\ files_to_copy = << >>
    /\ files_to_convert = << >>
    /\ num_copy_tasks = 0
    /\ num_convert_tasks = 0
    /\ num_tasks_total = 0
    /\ submitted = 0
    /\ queue = << >>
    /\ active = { }
    /\ chan = << >>
    /\ received = 0
    /\ copied = 0
    /\ dirs = << >>
    /\ exitOf = << >>
    /\ lost = { }
    /\ log = << >>

inputVars == << playlists, ffmpeg >>

exitVars == << panicAt, exit_status >>

parseVars == << pl, ent, written, flushed, files_to_copy, files_to_convert >>

batchVars == << num_copy_tasks, num_convert_tasks, num_tasks_total, exitOf >>

poolVars == << submitted, queue, active, chan, lost >>

reportVars == << received, copied, log >>

\* create_dir_all(d) finds d in place: an earlier create_dir_all of this
\* run made it, or made a directory below it.
IsPrefix(s, t) == Len(s) <= Len(t) /\ SubSeq(t, 1, Len(s)) = s

DirExists(d) ==
    \E n \in 1..Len(dirs) :
        dirs[n].abs = d.abs /\ IsPrefix(d.comps, dirs[n].comps)

\* An unwrap() on an Err: the main thread panics and the process ends with
\* status 101.
Panic(line) ==
    /\ pc' = "aborted"
    /\ panicAt' = line
    /\ exit_status' = << 101 >>

(***************************************************************************)
(* Parsing playlists, lines 35-113.                                        *)
(***************************************************************************)
\* Line 35.
CreateOutputDir ==
    /\ pc = "mkroot"
    /\ pc' = "open"
    /\ dirs' = Append(dirs, output_dir)
    /\ UNCHANGED << inputVars, exitVars, parseVars, batchVars, poolVars, reportVars >>

CreateOutputDirFails ==
    /\ pc = "mkroot"
    /\ Panic(35)
    /\ UNCHANGED << inputVars, dirs, parseVars, batchVars, poolVars, reportVars >>

\* Lines 39-57: the next playlist is opened and its output file created.
OpenPlaylist ==
    /\ pc = "open"
    /\ pl <= Len(playlists)
    /\ pc' = "entries"
    /\ ent' = 0
    /\ UNCHANGED << inputVars, exitVars, pl, written, flushed, files_to_copy,
                    files_to_convert, dirs, batchVars, poolVars, reportVars >>

\* Line 41 (Reader::open) or line 45 (File::create) fails.
OpenPlaylistFails ==
    /\ pc = "open"
    /\ pl <= Len(playlists)
    /\ \E line \in { 41, 45 } : Panic(line)
    /\ UNCHANGED << inputVars, dirs, parseVars, batchVars, poolVars, reportVars >>

\* Lines 58-81: an entry the filters or the extension check drop.
SkipEntry ==
    /\ pc = "entries"
    /\ ent < Len(playlists[pl])
    /\ ~ Survives(playlists[pl][ent + 1])
    /\ ent' = ent + 1
    /\ UNCHANGED << inputVars, pc, exitVars, pl, written, flushed, files_to_copy,
                    files_to_convert, dirs, batchVars, poolVars, reportVars >>

\* Variant: the task is inserted at the head of its list.
PushTask_Front(t, isCopy) ==
    /\ files_to_copy' = IF isCopy THEN << t >> \o files_to_copy ELSE files_to_copy
    /\ files_to_convert' = IF isCopy THEN files_to_convert ELSE << t >> \o files_to_convert

\* Lines 82-95: the task is pushed to one of the two lists.
PushTask(t, isCopy) ==
    /\ files_to_copy' = IF isCopy THEN Append(files_to_copy, t) ELSE files_to_copy
    /\ files_to_convert' = IF isCopy THEN files_to_convert ELSE Append(files_to_convert, t)

\* Lines 82-109: a surviving entry is classified, pushed and written.
ClassifyEntry ==
    /\ pc = "entries"
    /\ ent < Len(playlists[pl])
    /\ Survives(playlists[pl][ent + 1])
    /\ LET p == playlists[pl][ent + 1].path
       IN  /\ PushTask(Task(pl, ent + 1, p), IsMp3(p))
           /\ written' = [written EXCEPT ![pl] = Append(@, output_audio_path_windows(p))]
    /\ ent' = ent + 1
    /\ UNCHANGED << inputVars, pc, exitVars, pl, flushed, dirs, batchVars,
                    poolVars, reportVars >>

\* Line 109: write_entry fails after the task was pushed.
WriteEntryFails ==
    /\ pc = "entries"
    /\ ent < Len(playlists[pl])
    /\ Survives(playlists[pl][ent + 1])
    /\ LET p == playlists[pl][ent + 1].path
       IN  PushTask(Task(pl, ent + 1, p), IsMp3(p))
    /\ ent' = ent + 1
    /\ Panic(109)
    /\ UNCHANGED << inputVars, pl, written, flushed, dirs, batchVars, poolVars,
                    reportVars >>

\* Variant: line 111 is missing and the writer is dropped unflushed.
FlushPlaylist_NoFlush ==
    /\ pc = "entries"
    /\ ent = Len(playlists[pl])
    /\ pl' = pl + 1
    /\ ent' = 0
    /\ pc' = "open"
    /\ UNCHANGED << inputVars, exitVars, written, flushed, files_to_copy,
                    files_to_convert, dirs, batchVars, poolVars, reportVars >>

\* Lines 111-113: the playlist is exhausted, its writer flushed.
FlushPlaylist ==
    /\ pc = "entries"
    /\ ent = Len(playlists[pl])
    /\ flushed' = [flushed EXCEPT ![pl] = TRUE]
    /\ pl' = pl + 1
    /\ ent' = 0
    /\ pc' = "open"
    /\ UNCHANGED << inputVars, exitVars, written, files_to_copy,
                    files_to_convert, dirs, batchVars, poolVars, reportVars >>

FlushPlaylistFails ==
    /\ pc = "entries"
    /\ ent = Len(playlists[pl])
    /\ Panic(111)
    /\ UNCHANGED << inputVars, dirs, parseVars, batchVars, poolVars, reportVars >>

\* Lines 115-129: the counts are taken, the pool and the channel created.
StartConverting ==
    /\ pc = "open"
    /\ pl > Len(playlists)
    /\ num_copy_tasks' = Len(files_to_copy)
    /\ num_convert_tasks' = Len(files_to_convert)
    /\ num_tasks_total' = Len(files_to_copy) + Len(files_to_convert)
    /\ exitOf' = [i \in 1..Len(files_to_convert) |-> "none"]
    /\ pc' = "submit"
    /\ UNCHANGED << inputVars, exitVars, parseVars, dirs, poolVars, reportVars >>

Parsing ==
    \/ CreateOutputDir
    \/ CreateOutputDirFails
    \/ OpenPlaylist
    \/ OpenPlaylistFails
    \/ SkipEntry
    \/ ClassifyEntry
    \/ WriteEntryFails
    \/ FlushPlaylist
    \/ FlushPlaylistFails
    \/ StartConverting

\* The parsing stage alone, over every kind of entry.
InitClassify ==
    /\ PlaylistsAmong(ClassifyEntries, MaxPlaylists, MaxEntries)
    /\ ffmpeg \in SuccessOnly(ConvertFiles)
    /\ InitMain

SpecClassify == InitClassify /\ [][Parsing]_vars

(***************************************************************************)
(* Converting, lines 122-185.                                              *)
(***************************************************************************)
\* Variant: a pool of one more thread.
n_workers_five == 4 + 1

\* Line 126.
n_workers == 4

\* Lines 131-137: what the closure captures; task is the position of the
\* pair in files_to_convert.
Job(i) ==
    [task |-> i,
     input_path_str |-> files_to_convert[i].input,
     output_path_str |-> files_to_convert[i].output,
     output_path |-> files_to_convert[i].output]

\* Variant: the closure sends the path it read from.
Message_InputPath(j, r) ==
    [task |-> j.task, output_path |-> j.input_path_str, result |-> r]

\* Line 149: the pair the closure sends.
Message(j, r) == [task |-> j.task, output_path |-> j.output_path, result |-> r]

\* The process is alive and main has not returned.
Running == pc \notin { "aborted", "done" }

\* Variant: line 134 is left out.
Submit_NoCreateDir ==
    /\ pc = "submit"
    /\ submitted < Len(files_to_convert)
    /\ queue' = Append(queue, Job(submitted + 1))
    /\ submitted' = submitted + 1
    /\ UNCHANGED << inputVars, pc, exitVars, parseVars, batchVars, active, chan,
                    lost, dirs, reportVars >>

\* Lines 130-152: one iteration of the submission loop.
Submit ==
    /\ pc = "submit"
    /\ submitted < Len(files_to_convert)
    /\ dirs' = Append(dirs, Parent(files_to_convert[submitted + 1].output))
    /\ queue' = Append(queue, Job(submitted + 1))
    /\ submitted' = submitted + 1
    /\ UNCHANGED << inputVars, pc, exitVars, parseVars, batchVars, active, chan,
                    lost, reportVars >>

\* Variant: create_dir in place of create_dir_all, which fails on a
\* directory that is already there.
SubmitDirFails_CreateDir ==
    /\ pc = "submit"
    /\ submitted < Len(files_to_convert)
    /\ Panic(134)
    /\ UNCHANGED << inputVars, parseVars, batchVars, poolVars, dirs, reportVars >>

\* Line 134: create_dir_all fails.
SubmitDirFails ==
    /\ pc = "submit"
    /\ submitted < Len(files_to_convert)
    /\ ~DirExists(Parent(files_to_convert[submitted + 1].output))
    /\ Panic(134)
    /\ UNCHANGED << inputVars, parseVars, batchVars, poolVars, dirs, reportVars >>

\* Line 152 to 154: the submission loop is exhausted.
StartCollecting ==
    /\ pc = "submit"
    /\ submitted = Len(files_to_convert)
    /\ pc' = "collect"
    /\ UNCHANGED << inputVars, exitVars, parseVars, batchVars, poolVars, dirs,
                    reportVars >>

\* A free worker of the pool takes the oldest queued job and launches ffmpeg.
StartJob ==
    /\ Running
    /\ queue # << >>
    /\ Cardinality(active) < n_workers
    /\ active' = active \cup { Head(queue) }
    /\ queue' = Tail(queue)
    /\ UNCHANGED << inputVars, pc, exitVars, parseVars, batchVars, submitted,
                    chan, lost, dirs, reportVars >>

\* Variant: a transcoder that does not return is given up on and reported
\* as one that could not be run.
FinishJob_Timeout ==
    /\ Running
    /\ \E j \in active :
          LET r == IF ffmpeg[j.task] \in Results THEN ffmpeg[j.task]
                   ELSE "LaunchErr"
          IN  /\ chan' = Append(chan, Message(j, r))
              /\ active' = active \ { j }
              /\ exitOf' = [exitOf EXCEPT ![j.task] = r]
    /\ UNCHANGED << inputVars, pc, exitVars, parseVars, num_copy_tasks,
                    num_convert_tasks, num_tasks_total, submitted, queue, lost,
                    dirs, reportVars >>

\* Lines 138-150: output() returns and the closure sends the result; of a
\* transcoder that hangs, output() does not return.
FinishJob ==
    /\ Running
    /\ \E j \in active :
          /\ ffmpeg[j.task] \in Results
          /\ chan' = Append(chan, Message(j, ffmpeg[j.task]))
          /\ active' = active \ { j }
          /\ exitOf' = [exitOf EXCEPT ![j.task] = ffmpeg[j.task]]
    /\ UNCHANGED << inputVars, pc, exitVars, parseVars, num_copy_tasks,
                    num_convert_tasks, num_tasks_total, submitted, queue, lost,
                    dirs, reportVars >>

\* The closure unwinds before line 149; the pool replaces the thread.
WorkerPanics ==
    /\ Running
    /\ \E j \in active :
          /\ active' = active \ { j }
          /\ lost' = lost \cup { j.task }
    /\ UNCHANGED << inputVars, pc, exitVars, parseVars, batchVars, submitted,
                    queue, chan, dirs, reportVars >>

\* Variant: take() is given one less than the number of convert tasks.
TakeCount_OneShort == IF num_convert_tasks > 0 THEN num_convert_tasks - 1 ELSE 0

\* Line 154: take(num_convert_tasks).
TakeCount == num_convert_tasks

\* Line 155.
ConvertIndex(i) == i + 1

\* Variant: output.status.success() is not looked at.
ConvertReport_IgnoresStatus(i, m) ==
    [index |-> ConvertIndex(i),
     total |-> num_tasks_total,
     path |-> m.output_path,
     level |-> IF m.result = "LaunchErr" THEN "warn" ELSE "info",
     text |-> IF m.result = "LaunchErr" THEN "Failed to execute FFmpeg"
              ELSE "Conversion succeeded.",
     kind |-> "convert",
     task |-> m.task]

\* Lines 156-184: the line logged for a received result.
ConvertReport(i, m) ==
    [index |-> ConvertIndex(i),
     total |-> num_tasks_total,
     path |-> m.output_path,
     level |-> IF m.result = "Success" THEN "info" ELSE "warn",
     text |-> CASE m.result = "Success" -> "Conversion succeeded."
                [] m.result = "NonZero" -> "FFmpeg exited with non-zero status"
                [] OTHER -> "Failed to execute FFmpeg",
     kind |-> "convert",
     task |-> m.task]

\* Variant: results are drained inside the submission loop as well.
Receive_WhileSubmitting ==
    /\ pc \in { "submit", "collect" }
    /\ received < TakeCount
    /\ chan # << >>
    /\ log' = Append(log, ConvertReport(received, Head(chan)))
    /\ chan' = Tail(chan)
    /\ received' = received + 1
    /\ UNCHANGED << inputVars, pc, exitVars, parseVars, batchVars, submitted,
                    queue, active, lost, dirs, copied >>

\* Lines 154-185: one result is received and logged.
Receive ==
    /\ pc = "collect"
    /\ received < TakeCount
    /\ chan # << >>
    /\ log' = Append(log, ConvertReport(received, Head(chan)))
    /\ chan' = Tail(chan)
    /\ received' = received + 1
    /\ UNCHANGED << inputVars, pc, exitVars, parseVars, batchVars, submitted,
                    queue, active, lost, dirs, copied >>

\* Variant: rx.try_iter() in place of rx.iter(): an empty channel ends the loop.
StartCopying_TryIter ==
    /\ pc = "collect"
    /\ (received >= TakeCount \/ chan = << >>)
    /\ pc' = "copy"
    /\ UNCHANGED << inputVars, exitVars, parseVars, batchVars, poolVars, dirs,
                    reportVars >>

\* Variant: the loop receives before it looks at the count, as a loop over
\* rx.recv() that breaks once the count is reached would.
StartCopying_RecvFirst ==
    /\ pc = "collect"
    /\ received >= TakeCount
    /\ received >= 1
    /\ pc' = "copy"
    /\ UNCHANGED << inputVars, exitVars, parseVars, batchVars, poolVars, dirs,
                    reportVars >>

\* Line 154 to 187: take() is exhausted.
StartCopying ==
    /\ pc = "collect"
    /\ received >= TakeCount
    /\ pc' = "copy"
    /\ UNCHANGED << inputVars, exitVars, parseVars, batchVars, poolVars, dirs,
                    reportVars >>

Converting ==
    \/ Submit
    \/ SubmitDirFails
    \/ StartCollecting
    \/ StartJob
    \/ FinishJob
    \/ Receive
    \/ StartCopying

(***************************************************************************)
(* Copying, lines 187-213.                                                 *)
(***************************************************************************)
\* What std::fs::copy returns.
CopyResults == { "Ok", "Err" }

\* Variant: the offset of line 189 is the number of copy tasks.
CopyIndex_PlusCopies(i) == i + num_copy_tasks + 1

\* Line 189.
CopyIndex(i) == i + num_convert_tasks + 1

\* Lines 193-211: the line logged for a copy.
CopyReport(i, t, r) ==
    [index |-> CopyIndex(i),
     total |-> num_tasks_total,
     path |-> t.output,
     level |-> IF r = "Ok" THEN "info" ELSE "warn",
     text |-> IF r = "Ok" THEN "Copying succeeded." ELSE "Failed to copy file",
     kind |-> "copy",
     task |-> i + 1]

\* Lines 188-212: one iteration of the copy loop.
CopyFile ==
    /\ pc = "copy"
    /\ copied < Len(files_to_copy)
    /\ \E r \in CopyResults :
          log' = Append(log, CopyReport(copied, files_to_copy[copied + 1], r))
    /\ dirs' = Append(dirs, Parent(files_to_copy[copied + 1].output))
    /\ copied' = copied + 1
    /\ UNCHANGED << inputVars, pc, exitVars, parseVars, batchVars, poolVars,
                    received >>

\* Line 191: create_dir_all fails.
CopyDirFails ==
    /\ pc = "copy"
    /\ copied < Len(files_to_copy)
    /\ ~DirExists(Parent(files_to_copy[copied + 1].output))
    /\ Panic(191)
    /\ UNCHANGED << inputVars, parseVars, batchVars, poolVars, dirs, reportVars >>

\* Variant: main ends with std::process::exit(1) when a task was reported
\* with a warning.
Finish_FailsOnWarning ==
    /\ pc = "copy"
    /\ copied = Len(files_to_copy)
    /\ pc' = "done"
    /\ exit_status' = IF \E j \in 1..Len(log) : log[j].level = "warn"
                      THEN << 1 >> ELSE << 0 >>
    /\ UNCHANGED << inputVars, panicAt, parseVars, batchVars, poolVars, dirs,
                    reportVars >>

\* Line 213: main returns (), which the runtime turns into exit status 0.
Finish ==
    /\ pc = "copy"
    /\ copied = Len(files_to_copy)
    /\ pc' = "done"
    /\ exit_status' = << 0 >>
    /\ UNCHANGED << inputVars, panicAt, parseVars, batchVars, poolVars, dirs,
                    reportVars >>

Copying ==
    \/ CopyFile
    \/ CopyDirFails
    \/ Finish

(***************************************************************************)
(* Whole runs.                                                             *)
(***************************************************************************)
\* A playlist of c mp3 files behind a URL, and one of k wav files.  The
\* second and third mp3 share a directory, and so do the wav files two by two.
CopyEntry(i) ==
    PathEntry(Rel(<< << "m" >>, << ToString(i \div 2) >>, << ToString(i), "mp3" >> >>))

ConvertEntry(i) ==
    PathEntry(Rel(<< << ToString((i + 1) \div 2) >>, << ToString(i), "wav" >> >>))

RunBatch(k, c) ==
    << << UrlEntry >> \o [i \in 1..c |-> CopyEntry(i)],
       [i \in 1..k |-> ConvertEntry(i)] >>

\* Every such pair of playlists with at most maxT tasks, at most maxC of them copies.
RunInputs(maxT, maxC) ==
    UNION { { RunBatch(k, c) : k \in 0..(maxT - c) } : c \in 0..maxC }

Init ==
    /\ playlists \in RunInputs(MaxTasks, MaxCopy)
    /\ ffmpeg \in AllOutcomes(ConvertFiles)
    /\ InitMain

Next == Parsing \/ Converting \/ Copying

Spec == Init /\ [][Next]_vars

\* Runs in which the closure of a job may panic.
NextPanic == Next \/ WorkerPanics

SpecPanic == Init /\ [][NextPanic]_vars

\* More files to convert than the pool has workers.
InitPool ==
    /\ playlists \in RunInputs(MaxPoolTasks, 1)
    /\ ffmpeg \in UniformOutcomes(ConvertFiles)
    /\ InitMain

SpecPool == InitPool /\ [][Next]_vars

\* Runs in which ffmpeg may hang on one of the files: Command::output() at
\* lines 138-148 has no timeout.
HangOutcomes(files) ==
    { f \in [files -> Results \cup { "Hang" }] :
        Cardinality({ i \in files : f[i] = "Hang" }) <= 1 }

InitLive ==
    /\ playlists \in RunInputs(MaxLiveTasks, 1)
    /\ ffmpeg \in HangOutcomes(ConvertFiles)
    /\ InitMain

\* The steps of the main thread and those of the pool's threads.
MainStep ==
    \/ Parsing
    \/ Submit
    \/ SubmitDirFails
    \/ StartCollecting
    \/ Receive
    \/ StartCopying
    \/ Copying

PoolStep == StartJob \/ FinishJob

\* The operating system schedules the main thread and the pool's threads
\* fairly: neither stays ready for ever without running.
SpecLive ==
    /\ InitLive
    /\ [][Next]_vars
    /\ WF_vars(MainStep)
    /\ WF_vars(PoolStep)

(***************************************************************************)
(* Vocabulary of the properties.                                           *)
(***************************************************************************)
NumConvert == Len(files_to_convert)

NumCopy == Len(files_to_copy)

\* The copy stage has been entered: the copy loop is running or has run.
CopyStage == pc \in { "copy", "done" } \/ panicAt = 191

\* The conversion stage has been entered.
ConvertStage == pc \in { "submit", "collect" } \/ panicAt = 134

\* The playlist entry a task was made from.
EntryOf(t) == playlists[t.src[1]][t.src[2]]

\* The positions of the log that report the i-th task of a kind.
ReportsOf(kind, i) ==
    { j \in 1..Len(log) : log[j].kind = kind /\ log[j].task = i }

\* The entries the program is to drop, in the words of its documentation.
Dropped(e) ==
    \/ e.kind = "Url"
    \/ e.kind = "Err"
    \/ e.kind = "Path" /\ ~ HasExtension(e.path)

\* The entries of playlist k the loop has consumed.
Consumed(k) ==
    IF k < pl THEN 1..Len(playlists[k])
    ELSE IF k = pl THEN 1..ent
    ELSE { }

\* The positions of a list whose task comes from playlist k.
FromPlaylist(list, k) == { j \in 1..Len(list) : list[j].src[1] = k }

\* Entry position a comes before entry position b.
Before(a, b) == a[1] < b[1] \/ (a[1] = b[1] /\ a[2] < b[2])

(***************************************************************************)
(* C1: no copy is started, and no directory of a copy created, before the *)
(* collector has received one result for every convert task; while the    *)
(* copy stage runs no transcoder is running or waiting to run.            *)
(***************************************************************************)
C1_CopyAfterAllResults ==
    (CopyStage \/ copied > 0) =>
        /\ received = NumConvert
        /\ submitted = NumConvert
        /\ active = { }
        /\ queue = << >>

C1_Witness == copied > 0 /\ NumConvert >= 2 /\ received = NumConvert

(***************************************************************************)
(* C2: the collector never receives more results than there are convert   *)
(* tasks, and when the conversion stage has ended it has received exactly  *)
(* that many and the channel is empty, whatever the results are.           *)
(***************************************************************************)
C2_CountConservation ==
    /\ received <= NumConvert
    /\ CopyStage => (received = NumConvert /\ chan = << >>)

C2_Witness ==
    /\ pc = "copy"
    /\ received = 3
    /\ \E i, j \in 1..3 : exitOf[i] = "LaunchErr" /\ exitOf[j] = "NonZero"

(***************************************************************************)
(* C3: the collector is never left waiting for a result that no job,      *)
(* queued or running, is going to send.                                    *)
(***************************************************************************)
C3_CollectorNeverStranded ==
    ~ ( /\ pc = "collect"
        /\ received < num_convert_tasks
        /\ chan = << >>
        /\ active = { }
        /\ queue = << >> )

(***************************************************************************)
(* C4: at most 4 transcoders run at the same time, however many convert   *)
(* tasks there are.                                                        *)
(***************************************************************************)
C4_AtMostFourTranscoders == Cardinality(active) <= 4

C4_Witness == Cardinality(active) = 4 /\ Len(queue) >= 2

(***************************************************************************)
(* C5: when the run is done every convert task has been executed and      *)
(* reported exactly once, a task whose transcoder failed as a warning,    *)
(* and every copy task has been reported exactly once; and no step that   *)
(* receives a result or copies a file ends the run.                       *)
(***************************************************************************)
C5_AllReportedAtDone ==
    pc = "done" =>
        /\ \A i \in 1..NumConvert :
              /\ exitOf[i] # "none"
              /\ Cardinality(ReportsOf("convert", i)) = 1
              /\ \A j \in ReportsOf("convert", i) :
                    (exitOf[i] # "Success") <=>
                        (log[j].level = "warn" /\ log[j].text # "Conversion succeeded.")
        /\ \A k \in 1..NumCopy : Cardinality(ReportsOf("copy", k)) = 1

C5_ReportingGoesOn == Len(log') > Len(log) => (pc' = pc /\ panicAt' = 0)

C5_FailuresDoNotStopTheRun == [] C5_AllReportedAtDone /\ [][C5_ReportingGoesOn]_vars

C5_Witness ==
    /\ pc = "done"
    /\ NumConvert = 2
    /\ NumCopy = 2
    /\ exitOf[1] = "NonZero"
    /\ exitOf[2] = "Success"
    /\ \E j \in ReportsOf("copy", 1) : log[j].level = "warn"
    /\ \E j \in ReportsOf("copy", 2) : log[j].level = "info"

(***************************************************************************)
(* C6: the j-th line logged carries index j and the total number of       *)
(* tasks; the lines of the conversions come first, in the order the       *)
(* results are received, and the k-th copy task is logged with index      *)
(* num_convert_tasks + k; a run that is done has logged every index once.  *)
(***************************************************************************)
C6_DisplayIndices ==
    /\ \A j \in 1..Len(log) :
          /\ log[j].index = j
          /\ log[j].total = NumConvert + NumCopy
          /\ j <= NumConvert => log[j].kind = "convert"
          /\ j > NumConvert =>
                /\ log[j].kind = "copy"
                /\ log[j].task = j - NumConvert
                /\ log[j].path = files_to_copy[j - NumConvert].output
    /\ pc = "done" => Len(log) = NumConvert + NumCopy

C6_Witness ==
    /\ pc = "done"
    /\ NumConvert = 2
    /\ NumCopy = 2
    /\ log[1].task = 2

(***************************************************************************)
(* C7: once the conversion stage is entered, and so in every later state  *)
(* including a run that panics while converting or copying, every         *)
(* playlist has been flushed with one line per entry that survives.       *)
(***************************************************************************)
RECURSIVE CountKept(_)
CountKept(entries) ==
    IF entries = << >> THEN 0
    ELSE (IF Dropped(Head(entries)) THEN 0 ELSE 1) + CountKept(Tail(entries))

Mp3Named(p) ==
    [abs |-> p.abs,
     comps |-> [n \in 1..Len(p.comps) |->
                  IF n < Len(p.comps) THEN p.comps[n]
                  ELSE [m \in 1..Len(p.comps[n]) |->
                          IF m < Len(p.comps[n]) THEN p.comps[n][m] ELSE "mp3"]]]

HasTask(list, k, i) == \E j \in 1..Len(list) : list[j].src = << k, i >>

C8_Classification ==
    /\ \A t \in { files_to_copy[j] : j \in 1..NumCopy } :
          /\ Last(Last(EntryOf(t).path.comps)) = "mp3"
          /\ t.output = Join(output_dir, EntryOf(t).path)
    /\ \A t \in { files_to_convert[j] : j \in 1..NumConvert } :
          /\ Last(Last(EntryOf(t).path.comps)) # "mp3"
          /\ t.output = Join(output_dir, Mp3Named(EntryOf(t).path))
    /\ \A k \in 1..Len(playlists) : \A i \in Consumed(k) :
          LET e == playlists[k][i]
          IN  (e.kind = "Path" /\ HasExtension(e.path)) =>
                 IF Last(Last(e.path.comps)) = "mp3"
                 THEN HasTask(files_to_copy, k, i)
                 ELSE HasTask(files_to_convert, k, i)
    /\ \A t \in { files_to_copy[j] : j \in 1..NumCopy }
              \cup { files_to_convert[j] : j \in 1..NumConvert } :
          HasExtension(t.output) /\ Extension(t.output) = "mp3"

C8_Witness ==
    /\ pc = "submit"
    /\ NumCopy = 1
    /\ \E j \in 1..NumConvert : Extension(EntryOf(files_to_convert[j]).path) = "MP3"
    /\ \E j \in 1..NumConvert : Extension(EntryOf(files_to_convert[j]).path) = ""

(***************************************************************************)
(* C9: in each of the two lists a task comes before another exactly when   *)
(* its entry comes earlier (an earlier playlist, or the same playlist and  *)
(* an earlier line); every consumed entry that survives is in exactly one  *)
(* of the lists exactly once, and a dropped entry is in neither.           *)
(***************************************************************************)
InEntryOrder(list) ==
    \A a, b \in 1..Len(list) : a < b => Before(list[a].src, list[b].src)

Occurrences(list, k, i) ==
    Cardinality({ j \in 1..Len(list) : list[j].src = << k, i >> })

C9_PlaylistThenEntryOrder ==
    /\ InEntryOrder(files_to_copy)
    /\ InEntryOrder(files_to_convert)
    /\ \A k \in 1..Len(playlists) : \A i \in 1..Len(playlists[k]) :
          Occurrences(files_to_copy, k, i) + Occurrences(files_to_convert, k, i)
              = IF i \in Consumed(k) /\ ~ Dropped(playlists[k][i]) THEN 1 ELSE 0

C9_Witness ==
    /\ pc = "submit"
    /\ NumConvert = 3
    /\ files_to_convert[1].src = << 1, 1 >>
    /\ files_to_convert[2].src = << 1, 2 >>
    /\ files_to_convert[3].src = << 2, 1 >>

(***************************************************************************)
(* C10: consuming a URL, an unreadable entry or a path without extension   *)
(* changes neither list nor any output playlist and does not end the run;  *)
(* consuming any other entry adds one task and, unless the write fails,    *)
(* one line; so while no write has failed each playlist has as many lines  *)
(* as it has tasks in the two lists.                                       *)
(***************************************************************************)
C10_LinesMatchTasks ==
    panicAt # 109 =>
        \A k \in 1..Len(playlists) :
            Len(written[k]) = Cardinality(FromPlaylist(files_to_copy, k))
                                + Cardinality(FromPlaylist(files_to_convert, k))

C10_EntryStep ==
    (pc = "entries" /\ ent' = ent + 1) =>
        IF Dropped(playlists[pl][ent + 1])
        THEN /\ files_to_copy' = files_to_copy
             /\ files_to_convert' = files_to_convert
             /\ written' = written
             /\ pc' = "entries"
        ELSE /\ NumCopy' + NumConvert' = NumCopy + NumConvert + 1
             /\ pc' = "entries" => Len(written'[pl]) = Len(written[pl]) + 1

C10_DroppedEntriesAddNothing == [] C10_LinesMatchTasks /\ [][C10_EntryStep]_vars

C10_Witness ==
    /\ pc = "submit"
    /\ Len(playlists[1]) = 3
    /\ Len(written[1]) = 1
    /\ playlists[1][1].kind = "Url"
    /\ playlists[1][3].kind = "Path"
    /\ Dropped(playlists[1][3])

(***************************************************************************)
(* C11: the output path of every task, copy or convert, lies under the     *)
(* output root: it begins with the components of the output directory and  *)
(* what follows never climbs back above it, whether the playlist entry is  *)
(* a relative path, an absolute path or one with ".." components.          *)
(***************************************************************************)
AllTasks ==
    { files_to_copy[j] : j \in 1..NumCopy }
        \cup { files_to_convert[j] : j \in 1..NumConvert }

\* Of the first n components, how many are ".." and how many are names.
Climbs(comps, n) == Cardinality({ m \in 1..n : comps[m] = ParentDir })

Descends(comps, n) == Cardinality({ m \in 1..n : comps[m] # ParentDir })

UnderRoot(p) ==
    /\ p.abs = output_dir.abs
    /\ Len(p.comps) > Len(output_dir.comps)
    /\ SubSeq(p.comps, 1, Len(output_dir.comps)) = output_dir.comps
    /\ LET rest == SubSeq(p.comps, Len(output_dir.comps) + 1, Len(p.comps))
       IN  \A n \in 1..Len(rest) : Climbs(rest, n) <= Descends(rest, n)

C11_OutputsUnderRoot == \A t \in AllTasks : UnderRoot(t.output)

(***************************************************************************)
(* C12: every line of an output playlist is the components of the path of  *)
(* its task relative to the output root, extension already mp3, joined by  *)
(* single backslashes: components and backslashes alternate, the line      *)
(* begins and ends with a component, and it is never empty, so the last    *)
(* character removed at line 106 is always the backslash pushed last.      *)
(***************************************************************************)
\* The positions of playlist k that have given a task so far.
KeptPositions(k) == { i \in Consumed(k) : ~ Dropped(playlists[k][i]) }

\* The entry position behind the n-th line of playlist k.
PositionOfLine(k, n) ==
    CHOOSE i \in KeptPositions(k) :
        Cardinality({ j \in KeptPositions(k) : j <= i }) = n

TaskFrom(k, i) == CHOOSE t \in AllTasks : t.src = << k, i >>

\* The output path of a task as written relative to the output root; the
\* path of an absolute entry is that entry's own path.
RelativeToRoot(t) ==
    IF EntryOf(t).path.abs THEN t.output
    ELSE MkPath(FALSE, SubSeq(t.output.comps, Len(output_dir.comps) + 1,
                              Len(t.output.comps)))

\* What Path::iter() yields for a path.
Components(q) == IF q.abs THEN << RootToken >> \o q.comps ELSE q.comps

JoinedByBackslashes(line, cs) ==
    /\ Len(cs) >= 1
    /\ Len(line) = 2 * Len(cs) - 1
    /\ \A n \in 1..Len(line) :
          line[n] = IF n % 2 = 1 THEN cs[(n + 1) \div 2] ELSE << "\\" >>
    /\ line[1] # << "\\" >>
    /\ line[Len(line)] # << "\\" >>

Completed == pc = "copy" /\ received = NumConvert /\ copied = NumCopy

C13_DoneExitsZero ==
    /\ pc = "done" => (exit_status = << 0 >> /\ panicAt = 0)
    /\ exit_status = << 0 >> => pc = "done"
    /\ (pc = "copy" /\ copied = NumCopy) => Completed

C13_CompletionStep == Completed => (pc' = "done" /\ exit_status' = << 0 >>)

C13_CompletedRunExitsZero == [] C13_DoneExitsZero /\ [][C13_CompletionStep]_vars

C13_Witness ==
    /\ pc = "done"
    /\ exit_status = << 0 >>
    /\ NumConvert >= 2
    /\ NumCopy >= 1
    /\ Len(log) = NumConvert + NumCopy
    /\ \A j \in 1..Len(log) : log[j].level = "warn"
    /\ \E i \in 1..NumConvert : exitOf[i] = "NonZero"
    /\ \E i \in 1..NumConvert : exitOf[i] = "LaunchErr"

(***************************************************************************)
(* C14: when create_dir_all fails at line 134 or line 191 the run is over: *)
(* the failing step submits, copies and reports nothing, the process has   *)
(* ended with the status of a panic, and nothing is submitted, copied,     *)
(* received or reported afterwards, nor is Done reached.  The failure is   *)
(* never that of a directory this run has already created.                 *)
(***************************************************************************)
DirFailed == panicAt \in { 134, 191 }

\* Some create_dir_all of this run has made d, or a directory below d.
DirCreated(d) ==
    \E n \in 1..Len(dirs) :
        /\ dirs[n].abs = d.abs
        /\ Len(d.comps) <= Len(dirs[n].comps)
        /\ \A m \in 1..Len(d.comps) : dirs[n].comps[m] = d.comps[m]

NothingMoves ==
    /\ submitted' = submitted
    /\ queue' = queue
    /\ received' = received
    /\ copied' = copied
    /\ log' = log
    /\ dirs' = dirs

C14_AbortedByDir == DirFailed => (pc = "aborted" /\ exit_status = << 101 >>)

C14_DirFailureStep ==
    /\ (DirFailed' /\ ~ DirFailed) =>
          /\ NothingMoves
          /\ pc = "submit" =>
                ~ DirCreated(Parent(files_to_convert[submitted + 1].output))
          /\ pc = "copy" =>
                ~ DirCreated(Parent(files_to_copy[copied + 1].output))
    /\ DirFailed => (NothingMoves /\ pc' = "aborted")

C14_DirFailureAborts == [] C14_AbortedByDir /\ [][C14_DirFailureStep]_vars

C14_Witness ==
    /\ panicAt = 134
    /\ submitted = 2
    /\ NumConvert > 2
    /\ Parent(files_to_convert[2].output) = Parent(files_to_convert[1].output)
    /\ chan # << >>
    /\ log = << >>

(***************************************************************************)
(* C15: every result in the channel or in the log carries the output path  *)
(* of the convert task whose closure sent it and the outcome ffmpeg gave   *)
(* for that task; a task has one result once its ffmpeg has returned and   *)
(* none before; so when the conversion stage has ended every convert task  *)
(* has exactly one report, and the reported paths are, with multiplicity,  *)
(* the output paths of files_to_convert.                                   *)
(***************************************************************************)
InChannel(i) == { n \in 1..Len(chan) : chan[n].task = i }

ReportedOutcome(e) ==
    CASE e.text = "Conversion succeeded." -> "Success"
      [] e.text = "FFmpeg exited with non-zero status" -> "NonZero"
      [] e.text = "Failed to execute FFmpeg" -> "LaunchErr"
      [] OTHER -> "none"

ConvertReports == { j \in 1..Len(log) : log[j].kind = "convert" }

ConvertOutputs == { files_to_convert[i].output : i \in 1..NumConvert }

C15_OneResultPerTask ==
    /\ \A n \in 1..Len(chan) :
          /\ chan[n].task \in 1..submitted
          /\ chan[n].output_path = files_to_convert[chan[n].task].output
          /\ chan[n].result = ffmpeg[chan[n].task]
    /\ \A j \in ConvertReports :
          /\ log[j].task \in 1..submitted
          /\ log[j].path = files_to_convert[log[j].task].output
          /\ ReportedOutcome(log[j]) = ffmpeg[log[j].task]
    /\ \A i \in 1..NumConvert :
          Cardinality(InChannel(i)) + Cardinality(ReportsOf("convert", i))
              = IF i \in DOMAIN exitOf /\ exitOf[i] # "none" THEN 1 ELSE 0
    /\ CopyStage =>
          /\ \A i \in 1..NumConvert : Cardinality(ReportsOf("convert", i)) = 1
          /\ \A p \in ConvertOutputs :
                Cardinality({ j \in ConvertReports : log[j].path = p })
                    = Cardinality({ i \in 1..NumConvert :
                                      files_to_convert[i].output = p })
          /\ \A j \in ConvertReports : log[j].path \in ConvertOutputs

C15_Witness ==
    /\ pc = "copy"
    /\ NumConvert = 3
    /\ log[1].task = 3
    /\ log[2].task = 1
    /\ ReportedOutcome(log[1]) = "NonZero"
    /\ ReportedOutcome(log[2]) = "Success"
    /\ ReportedOutcome(log[3]) = "LaunchErr"

(***************************************************************************)
(* C16: the submission loop hands the convert tasks to the pool one by     *)
(* one in the order of files_to_convert: each step submits the task after  *)
(* the last one submitted, having just created the parent directory of its *)
(* output; the queue holds the latest submissions in that order; every     *)
(* submitted task is in exactly one place (queued, running, sent or        *)
(* reported) and no other task is anywhere; the directory of every         *)
(* submitted task, so of every running one, has been created.              *)
(***************************************************************************)
Queued(i) == { n \in 1..Len(queue) : queue[n].task = i }

RunningJobs(i) == { j \in active : j.task = i }

C16_SubmittedOnceInOrder ==
    /\ submitted \in 0..NumConvert
    /\ Len(queue) <= submitted
    /\ \A n \in 1..Len(queue) :
          /\ queue[n].task = submitted - Len(queue) + n
          /\ queue[n].output_path = files_to_convert[queue[n].task].output
    /\ \A j \in active : j.task \in 1..(submitted - Len(queue))
    /\ \A i \in 1..NumConvert :
          Cardinality(Queued(i)) + Cardinality(RunningJobs(i))
            + Cardinality(InChannel(i)) + Cardinality(ReportsOf("convert", i))
              = IF i <= submitted THEN 1 ELSE 0
    /\ \A i \in 1..submitted :
          \E n \in 1..Len(dirs) : dirs[n] = Parent(files_to_convert[i].output)

C16_SubmitStep ==
    (submitted' # submitted \/ Len(queue') > Len(queue)) =>
        /\ submitted' = submitted + 1
        /\ queue' = Append(queue, Last(queue'))
        /\ Last(queue').task = submitted'
        /\ dirs' = Append(dirs, Parent(files_to_convert[submitted'].output))

C16_SubmissionOrder == [] C16_SubmittedOnceInOrder /\ [][C16_SubmitStep]_vars

C16_Witness ==
    /\ pc = "submit"
    /\ submitted = 3
    /\ NumConvert = 4
    /\ Len(queue) = 2
    /\ queue[1].task = 2
    /\ queue[2].task = 3
    /\ RunningJobs(1) # { }

(***************************************************************************)
(* C17: in a run in which no ffmpeg hangs and no unwrap() ever panics, the *)
(* main thread and the pool being scheduled fairly, main eventually        *)
(* returns: Done is reached, for every batch.  With no file to convert the *)
(* collector's loop ends at once: in the collecting position the step to   *)
(* the copy stage is enabled with nothing received and an empty channel.   *)
(***************************************************************************)
HasHang == \E i \in DOMAIN ffmpeg : ffmpeg[i] = "Hang"

EmptyStageDoesNotWait ==
    (pc = "collect" /\ NumConvert = 0) =>
        (received = 0 /\ chan = << >> /\ ENABLED StartCopying)

C17_RunReachesDone ==
    /\ [] EmptyStageDoesNotWait
    /\ ([] (~ HasHang /\ pc # "aborted")) => <> (pc = "done")

C17_Witness ==
    /\ pc = "done"
    /\ ~ HasHang
    /\ NumConvert = 0
    /\ NumCopy = 1
    /\ received = 0
    /\ Len(log) = 1
    /\ log[1].kind = "copy"

(***************************************************************************)
(* C18: in a run in which ffmpeg hangs on one file, the copy stage is      *)
(* never entered, no copy is made and Done is never reached; unless an     *)
(* unwrap() panics, the run comes to rest, for ever, with every other      *)
(* convert task executed and reported, the hung job alone on its worker    *)
(* and the collector waiting on the empty channel.                         *)
(***************************************************************************)
Hung == { i \in DOMAIN ffmpeg : ffmpeg[i] = "Hang" }

NoCopyWhileHung ==
    HasHang =>
        /\ pc \notin { "copy", "done" }
        /\ copied = 0
        /\ \A j \in 1..Len(log) : log[j].kind = "convert" /\ log[j].task \notin Hung
        /\ \A i \in Hung : exitOf # << >> => exitOf[i] = "none"

CollectorStranded ==
    /\ pc = "collect"
    /\ received = NumConvert - 1
    /\ \A i \in 1..NumConvert :
          Cardinality(ReportsOf("convert", i)) = IF i \in Hung THEN 0 ELSE 1
    /\ queue = << >>
    /\ chan = << >>
    /\ { j.task : j \in active } = Hung

C18_HangStrandsCollector ==
    /\ [] NoCopyWhileHung
    /\ <>[] (HasHang => (pc = "aborted" \/ CollectorStranded))

C18_Witness ==
    /\ CollectorStranded
    /\ Hung = { 1 }
    /\ NumConvert = 2
    /\ NumCopy = 1
    /\ received = 1
    /\ log[1].task = 2
    /\ copied = 0

(***************************************************************************)
(* C19: the tasks of the two lists, taken together, have pairwise distinct *)
(* output paths, whatever the playlists contain.                           *)
(***************************************************************************)
TaskList == files_to_copy \o files_to_convert

C19_DistinctOutputs ==
    \A a, b \in 1..Len(TaskList) :
        a < b => TaskList[a].output # TaskList[b].output

(***************************************************************************)
(* C20: a result is received only by the collector's loop, which starts    *)
(* when every convert task has been submitted and every directory of the   *)
(* submission loop created; while main submits, and after a panic at line  *)
(* 134, nothing has been received or reported, whatever the workers have   *)
(* sent meanwhile.                                                         *)
(***************************************************************************)
C20_NothingReportedWhileSubmitting ==
    /\ (received > 0 \/ log # << >>) =>
          /\ submitted = NumConvert
          /\ pc \in { "collect", "copy", "done" } \/ panicAt = 191
          /\ \A i \in 1..NumConvert :
                \E n \in 1..Len(dirs) : dirs[n] = Parent(files_to_convert[i].output)
    /\ (pc = "submit" \/ panicAt = 134) => (received = 0 /\ log = << >>)

C20_ReceiveStep ==
    (received' # received \/ log' # log) =>
        (submitted = NumConvert /\ pc \in { "collect", "copy" })

C20_CollectAfterSubmission ==
    [] C20_NothingReportedWhileSubmitting /\ [][C20_ReceiveStep]_vars

C20_Witness ==
    /\ pc = "submit"
    /\ submitted = 3
    /\ NumConvert = 4
    /\ Len(chan) = 2
    /\ chan[1].task = 2
    /\ received = 0
    /\ log = << >>

=============================================================================
